---------------------------- MODULE Spec2Model ----------------------------
(***************************************************************************)
(* Model of the referral pipeline of backend/agent.py (worker),            *)
(* backend/main.py (intake handler, status endpoint, AgentManager) and     *)
(* backend/DocumentProcessor.py.                                           *)
(*                                                                         *)
(* Redis is modelled by two variables: queue (the list                     *)
(* "document_processing_queue") and store (the keys "document:<id>").      *)
(* Every Redis command is one atomic step.  Timestamps are left out of     *)
(* the records; the one-hour TTL of a key is the action Expire, which may  *)
(* remove a key at any moment after it was set.                            *)
(***************************************************************************)
EXTENDS Integers, Sequences, FiniteSets, TLC

(***************************************************************************)
(* Bounds of the model.                                                    *)
(***************************************************************************)
MaxJobs    == 2   \* queue entries ever pushed (uploads and foreign entries)
MaxWorkers == 2   \* AgentManager.num_workers is drawn from 1..MaxWorkers

(***************************************************************************)
(* JSON / Python values.  Every value is a record [t, s, f]: t is the      *)
(* Python type, s the text of a string, f the items of a dict.             *)
(***************************************************************************)
NoFields == [k \in {} |-> 0]

PyNone    == [t |-> "null", s |-> "", f |-> NoFields]
Str(x)    == [t |-> "str",  s |-> x,  f |-> NoFields]
Num       == [t |-> "num",  s |-> "", f |-> NoFields]
List      == [t |-> "list", s |-> "", f |-> NoFields]
Dict(fs)  == [t |-> "dict", s |-> "", f |-> fs]
EmptyDict == Dict(NoFields)

isinstance_dict(v) == v.t = "dict"

\* Python truth value: None, "" and {} are false; the numbers and lists of
\* the model are non-zero and non-empty.
Truthy(v) ==
  CASE v.t = "null" -> FALSE
    [] v.t = "str"  -> v.s # ""
    [] v.t = "dict" -> DOMAIN v.f # {}
    [] OTHER        -> TRUE

\* dict.get(key, default)
Get(d, key, default) == IF key \in DOMAIN d.f THEN d.f[key] ELSE default

(***************************************************************************)
(* check_required_fields                                                   *)
(***************************************************************************)
Sentinel == "All fields - invalid JSON response"

\* required_fields, each with the result of field.split(".") and of
\* field + " (phone, email, or address)"
required_fields ==
  << [name |-> "referring_provider.name",
      parts |-> <<"referring_provider", "name">>,
      annotated |-> "referring_provider.name (phone, email, or address)"],
     [name |-> "referring_provider.contact",
      parts |-> <<"referring_provider", "contact">>,
      annotated |-> "referring_provider.contact (phone, email, or address)"],
     [name |-> "receiving_provider.name",
      parts |-> <<"receiving_provider", "name">>,
      annotated |-> "receiving_provider.name (phone, email, or address)"],
     [name |-> "receiving_provider.contact",
      parts |-> <<"receiving_provider", "contact">>,
      annotated |-> "receiving_provider.contact (phone, email, or address)"],
     [name |-> "patient.name",
      parts |-> <<"patient", "name">>,
      annotated |-> "patient.name (phone, email, or address)"],
     [name |-> "patient.date_of_birth",
      parts |-> <<"patient", "date_of_birth">>,
      annotated |-> "patient.date_of_birth (phone, email, or address)"],
     [name |-> "reason_for_referral",
      parts |-> <<"reason_for_referral">>,
      annotated |-> "reason_for_referral (phone, email, or address)"],
     [name |-> "requested_action",
      parts |-> <<"requested_action">>,
      annotated |-> "requested_action (phone, email, or address)"] >>

\* field.endswith(".contact")
EndsWithContact(field) == field.parts[Len(field.parts)] = "contact"

\* the loop "for part in parts": the value reached, or field_missing
RECURSIVE Traverse(_, _, _)
Traverse(current, parts, i) ==
  IF i > Len(parts) THEN [field_missing |-> FALSE, current |-> current]
  ELSE IF ~isinstance_dict(current) \/ parts[i] \notin DOMAIN current.f
       THEN [field_missing |-> TRUE, current |-> current]
       ELSE Traverse(current.f[parts[i]], parts, i + 1)

\* one iteration of "for field in required_fields": the entries appended to
\* missing_fields, or the exception the iteration raises
CheckField(data, field) ==
  IF Len(field.parts) > 1
  THEN LET r == Traverse(data, field.parts, 1)
       IN  IF r.field_missing \/ ~Truthy(r.current)
           THEN [exc |-> "none", add |-> <<field.name>>]
           ELSE IF EndsWithContact(field)
                THEN IF ~isinstance_dict(r.current)
                     THEN [exc |-> "AttributeError", add |-> <<>>]
                     ELSE IF ~(\/ Truthy(Get(r.current, "phone", PyNone))
                               \/ Truthy(Get(r.current, "email", PyNone))
                               \/ Truthy(Get(r.current, "address", PyNone)))
                          THEN [exc |-> "none", add |-> <<field.annotated>>]
                          ELSE [exc |-> "none", add |-> <<>>]
                ELSE [exc |-> "none", add |-> <<>>]
  ELSE \* "field not in data": key test on a dict, element or substring test
       \* on a list or string (no list or string of the model holds a field
       \* name), TypeError on a number
       CASE data.t = "dict" ->
              IF field.name \notin DOMAIN data.f \/ ~Truthy(data.f[field.name])
              THEN [exc |-> "none", add |-> <<field.name>>]
              ELSE [exc |-> "none", add |-> <<>>]
         [] data.t \in {"str", "list"} ->
              [exc |-> "none", add |-> <<field.name>>]
         [] OTHER -> [exc |-> "TypeError", add |-> <<>>]

RECURSIVE CheckFrom(_, _, _)
CheckFrom(data, i, missing_fields) ==
  IF i > Len(required_fields)
  THEN [exc |-> "none", complete |-> Len(missing_fields) = 0,
        missing |-> missing_fields]
  ELSE LET r == CheckField(data, required_fields[i])
       IN  IF r.exc # "none"
           THEN [exc |-> r.exc, complete |-> FALSE, missing |-> <<>>]
           ELSE CheckFrom(data, i + 1, missing_fields \o r.add)

\* check_required_fields without the test of lines 90-91
check_required_fields_NoGuard(data) == CheckFrom(data, 1, <<>>)

check_required_fields(data) ==
  IF ~Truthy(data)
  THEN [exc |-> "none", complete |-> FALSE, missing |-> <<Sentinel>>]
  ELSE CheckFrom(data, 1, <<>>)

(***************************************************************************)
(* The collaborators of the routing branches                               *)
(***************************************************************************)
NoContact == Str("No contact information available")

\* get_contact_info(provider_data): the value returned, or AttributeError
\* when provider_data or its "contact" has no .get
get_contact_info(provider_data) ==
  IF ~isinstance_dict(provider_data)
  THEN [exc |-> "AttributeError", v |-> PyNone]
  ELSE LET contact == Get(provider_data, "contact", EmptyDict)
       IN  IF ~isinstance_dict(contact)
           THEN [exc |-> "AttributeError", v |-> PyNone]
           ELSE IF Truthy(Get(contact, "email", PyNone))
                THEN [exc |-> "none", v |-> contact.f["email"]]
                ELSE IF Truthy(Get(contact, "phone", PyNone))
                THEN [exc |-> "none", v |-> contact.f["phone"]]
                ELSE IF Truthy(Get(contact, "address", PyNone))
                THEN [exc |-> "none", v |-> contact.f["address"]]
                ELSE [exc |-> "none", v |-> NoContact]

\* lines 292-297 of main: the referring provider is asked first, the
\* receiving provider when the answer is "No contact information available"
ContactTarget(structured_data) ==
  LET referring_provider ==
        Get(structured_data, "referring_provider", EmptyDict)
      receiving_provider ==
        Get(structured_data, "receiving_provider", EmptyDict)
      contact_info == get_contact_info(referring_provider)
  IN  IF contact_info.exc = "none" /\ contact_info.v = NoContact
      THEN get_contact_info(receiving_provider)
      ELSE contact_info

\* additional_info of a status record.  The Python values (a string or a
\* dict, by status) are laid out in one record shape.
NoInfo == [text |-> "", result_status |-> "", referral_id |-> PyNone,
           missing_fields |-> <<>>, contact_info |-> PyNone,
           recipient |-> PyNone]

\* mock_emr_sync(referral_data): the result dict, or AttributeError when
\* a .get is applied to a value that is not a dict
mock_emr_sync(referral_data) ==
  IF \/ ~isinstance_dict(referral_data)
     \/ ~isinstance_dict(Get(referral_data, "patient", EmptyDict))
     \/ ~isinstance_dict(Get(referral_data, "referring_provider", EmptyDict))
     \/ ~isinstance_dict(Get(referral_data, "receiving_provider", EmptyDict))
  THEN [exc |-> "AttributeError", v |-> NoInfo]
  ELSE [exc |-> "none",
        v |-> [NoInfo EXCEPT !.result_status = "synced",
                 !.referral_id = Get(referral_data, "referral_id", PyNone)]]

\* mock_send_email(email_data, contact_info): the result dict, or
\* AttributeError when email_data is not a dict
mock_send_email(email_data, contact_info) ==
  IF ~isinstance_dict(email_data)
  THEN [exc |-> "AttributeError", status |-> "", recipient |-> PyNone]
  ELSE [exc |-> "none", status |-> "sent", recipient |-> contact_info]

\* draft_request_email up to its call of chat_with_gpt4: the two .get that
\* build the prompt
DraftPrompt(referring_provider, receiving_provider) ==
  IF isinstance_dict(referring_provider) /\ isinstance_dict(receiving_provider)
  THEN "none" ELSE "AttributeError"

\* lines 283-288 of main up to the language-model call: the arguments of
\* draft_request_email and the building of the prompt
DraftCall(structured_data) ==
  IF ~isinstance_dict(structured_data) THEN "AttributeError"
  ELSE DraftPrompt(Get(structured_data, "referring_provider", EmptyDict),
                   Get(structured_data, "receiving_provider", EmptyDict))

(***************************************************************************)
(* Values the language model returns in the model                          *)
(***************************************************************************)
Contact(email, phone, address) ==
  Dict([email |-> Str(email), phone |-> Str(phone), address |-> Str(address)])

Provider(name, contact) == Dict([name |-> Str(name), contact |-> contact])

Complete ==
  Dict([referral_id |-> Str("R-1"),
        referring_provider |-> Provider("Dr A", Contact("a@clinic", "", "")),
        receiving_provider |-> Provider("Dr B", Contact("", "555-0100", "")),
        patient |-> Dict([name |-> Str("Pat"),
                          date_of_birth |-> Str("2000-01-01")]),
        reason_for_referral |-> Str("reason"),
        requested_action |-> Str("action")])

\* patient.date_of_birth left empty, as the prompt asks for unknown fields
NoDob == [Complete EXCEPT !.f.patient.f.date_of_birth = Str("")]

\* "referring_provider": null
RpNull == [Complete EXCEPT !.f.referring_provider = PyNone]

\* "contact": null in the referring provider
RpContactNull == [Complete EXCEPT !.f.referring_provider.f.contact = PyNone]

\* "contact": "555-0100" in the referring provider
RpContactStr ==
  [Complete EXCEPT !.f.referring_provider.f.contact = Str("555-0100")]

EmailDraft == Dict([subject |-> Str("subject"), body |-> Str("body"),
                    recipient |-> Str("recipient")])

(***************************************************************************)
(* Text: the responses of the language model and the JSON text kept in     *)
(* Redis.  A text is named by a string; json.loads and json.dumps are the  *)
(* tables between the texts and the values.                                *)
(***************************************************************************)
\* message.content is None: no text at all
Absent == "<None>"

EmptyText == ""
Garbage   == "Dear colleague, ..."

\* the texts json.loads accepts, with the value each parses to
JsonTable ==
  [ null             |-> PyNone,
    emptyObject      |-> EmptyDict,
    number           |-> Num,
    array            |-> List,
    complete         |-> Complete,
    noDateOfBirth    |-> NoDob,
    providerNull     |-> RpNull,
    contactNull      |-> RpContactNull,
    contactString    |-> RpContactStr,
    emailDraft       |-> EmailDraft ]

JsonTexts == DOMAIN JsonTable

\* json.loads(text): the parsed value, or JSONDecodeError
json_loads(text) ==
  IF text \in JsonTexts THEN [exc |-> "none", v |-> JsonTable[text]]
                        ELSE [exc |-> "JSONDecodeError", v |-> PyNone]

\* json.dumps(value): the text of a value
json_dumps(value) == CHOOSE text \in JsonTexts : JsonTable[text] = value

\* the except branch of lines 79-83 keeping the text ("data = response")
llm_assistend_extraction_KeepsText(response) ==
  IF response = Absent THEN PyNone
  ELSE LET r == json_loads(response)
       IN  IF r.exc = "JSONDecodeError" THEN Str(response) ELSE r.v

\* llm_assistend_extraction, from the response of chat_with_gpt4 on
llm_assistend_extraction(response) ==
  IF response = Absent THEN PyNone
  ELSE LET r == json_loads(response)
       IN  IF r.exc = "JSONDecodeError" THEN PyNone ELSE r.v

\* draft_request_email from the response of chat_with_gpt4 on
draft_request_email(response) ==
  IF response = Absent THEN PyNone
  ELSE LET r == json_loads(response)
       IN  IF r.exc = "JSONDecodeError" THEN PyNone ELSE r.v

\* responses of the extraction call: every class of response
ExtractionResponses ==
  {Absent, EmptyText, Garbage, "null", "emptyObject", "number", "array",
   "complete", "noDateOfBirth", "providerNull", "contactNull",
   "contactString"}

\* the responses used where several workers and documents interleave: no
\* record, a complete record, and a record that goes on to the draft call
CoreExtractionResponses == {Garbage, "complete", "noDateOfBirth"}

DraftResponses == {Absent, Garbage, "emptyObject", "emailDraft", "array"}

CoreDraftResponses == {"emailDraft"}

(***************************************************************************)
(* Status records: the JSON text stored under "document:<id>"              *)
(***************************************************************************)
Terminal == {"extraction_failed", "emr_synced", "missing_fields_email_sent",
             "email_draft_failed"}

\* no key in Redis
NoRecord == [status |-> "", additional_info |-> NoInfo,
             structured_data |-> "null"]

\* update_redis_status called without its structured_data argument
StatusData_DropsData(status, additional_info, structured_data) ==
  [status |-> status, additional_info |-> additional_info,
   structured_data |-> json_dumps(PyNone)]

\* update_redis_status: the record written (json.dumps of status_data)
StatusData(status, additional_info, structured_data) ==
  [status |-> status, additional_info |-> additional_info,
   structured_data |-> json_dumps(structured_data)]

\* upload_document: job_data, as get_document_status reads it back
JobData == StatusData("ocr_complete", NoInfo, PyNone)

(***************************************************************************)
(* State                                                                   *)
(***************************************************************************)
VARIABLES
  queue,        \* Redis list "document_processing_queue", head first
  store,        \* Redis keys "document:<id>": id -> status record
  nextId,       \* the next fresh document id (uuid4) or foreign entry
  intake,       \* upload_document between its lpush and its setex: the id
  num_workers,  \* AgentManager.num_workers
  running,      \* AgentManager.running
  spc,          \* position of each supervisor thread (_run_agent)
  pc,           \* position of each worker process (agent.py)
  cur,          \* worker: the queue entry being processed
  wsd,          \* worker: structured_data of the job being processed
  run,          \* history of each queue entry (not program state)
  lastResp,     \* the last response of get_document_status
  call          \* a function of agent.py applied on its own: argument, result

vars == <<queue, store, nextId, intake, num_workers, running, spc, pc, cur,
          wsd, run, lastResp, call>>

Ids     == 1..MaxJobs
Workers == 1..MaxWorkers

NoRun == [kind |-> "none", fate |-> "new", deliveries |-> 0,
          calls |-> 0, resp |-> "<no call>", dresp |-> "<no call>",
          validated |-> FALSE, emr |-> FALSE, drafted |-> FALSE,
          sets |-> 0, writes |-> 0, written |-> ""]

NoResp == [doc |-> 0, found |-> FALSE, code |-> 0, detail |-> "",
           status |-> ""]

\* no function applied on its own
NoRet  == [exc |-> "none", complete |-> FALSE, missing |-> <<>>, v |-> PyNone]
NoCall == [f |-> "none", arg |-> PyNone, ret |-> NoRet]

\* AgentManager.__init__ and the module level of main.py, before startup:
\* n worker slots, first the first document id to be drawn
InitState(n, first) ==
  /\ queue = <<>>
  /\ store = [d \in Ids |-> NoRecord]
  /\ nextId = first
  /\ intake = 0
  /\ num_workers = n
  /\ running = FALSE
  /\ spc = [s \in Workers |-> "idle"]
  /\ pc = [w \in Workers |-> "off"]
  /\ cur = [w \in Workers |-> 0]
  /\ wsd = [w \in Workers |-> PyNone]
  /\ run = [e \in Ids |-> NoRun]
  /\ lastResp = NoResp

Init == call = NoCall /\ \E n \in 1..MaxWorkers : InitState(n, 1)

(***************************************************************************)
(* Redis commands                                                          *)
(***************************************************************************)
\* RPUSH for LPUSH: insert at the tail
lpush_Tail(q, x) == q \o <<x>>

\* LPUSH: insert at the head
lpush(q, x) == <<x>> \o q

\* RPOP: remove and return the tail
rpop(q) == [v |-> q[Len(q)], q |-> SubSeq(q, 1, Len(q) - 1)]

\* update_redis_status / setex
setex(d, rec) == store' = [store EXCEPT ![d] = rec]

(***************************************************************************)
(* Intake: upload_document                                                 *)
(***************************************************************************)
\* DocumentProcessor: the extensions process_document accepts
supported_formats == {".png", ".jpg", ".jpeg", ".pdf", ".tiff", ".bmp"}

\* os.path.splitext(filename)[1].lower() on the extensions of the model
lower(ext) == CASE ext = ".PNG" -> ".png"
                [] ext = ".Pdf" -> ".pdf"
                [] OTHER        -> ext

\* uploaded files: the extension of the name, and whether PIL and Tesseract
\* can read the content
Files == [ext : {".png", ".PNG", ".tiff", ".pdf", ".Pdf", ".txt", ""},
          readable : BOOLEAN]

\* process_document: the HTTPException raised, or 200 with the text
process_document(file) ==
  LET file_ext == lower(file.ext)
  IN  IF file_ext \notin supported_formats
      THEN [code |-> 400, detail |-> "Unsupported file format"]
      ELSE IF file_ext = ".pdf"
      THEN [code |-> 400, detail |-> "PDF support coming soon"]
      ELSE IF ~file.readable
      THEN [code |-> 500, detail |-> "OCR processing failed"]
      ELSE [code |-> 200, detail |-> ""]

\* lines 88-114: OCR succeeded, job_data pushed on the queue
UploadPush ==
  /\ intake = 0
  /\ nextId <= MaxJobs
  /\ \E file \in Files : process_document(file).code = 200
  /\ queue' = lpush(queue, [id |-> nextId, kind |-> "job"])
  /\ intake' = nextId
  /\ nextId' = nextId + 1
  /\ run' = [run EXCEPT ![nextId].kind = "job", ![nextId].fate = "queued"]
  /\ UNCHANGED <<store, num_workers, running, spc, pc, cur, wsd, lastResp,
                 call>>

\* lines 116-118: the initial status record
UploadSet ==
  /\ intake # 0
  /\ setex(intake, JobData)
  /\ intake' = 0
  /\ run' = [run EXCEPT ![intake].sets = @ + 1]
  /\ UNCHANGED <<queue, nextId, num_workers, running, spc, pc, cur, wsd,
                 lastResp, call>>

\* upload_document with the job pushed before the document is processed
UploadReject_AfterPush(file) ==
  /\ intake = 0
  /\ nextId <= MaxJobs
  /\ process_document(file).code # 200
  /\ queue' = lpush(queue, [id |-> nextId, kind |-> "job"])
  /\ nextId' = nextId + 1
  /\ run' = [run EXCEPT ![nextId].kind = "job", ![nextId].fate = "queued"]
  /\ lastResp' = [NoResp EXCEPT !.code = process_document(file).code,
                                !.detail = process_document(file).detail]
  /\ UNCHANGED <<store, intake, num_workers, running, spc, pc, cur, wsd, call>>

\* lines 88-98 and 129-130: process_document raises HTTPException, which the
\* handler raises again; the response is the error
UploadReject(file) ==
  /\ intake = 0
  /\ process_document(file).code # 200
  /\ lastResp' = [NoResp EXCEPT !.code = process_document(file).code,
                                !.detail = process_document(file).detail]
  /\ UNCHANGED <<queue, store, nextId, intake, num_workers, running, spc, pc,
                 cur, wsd, run, call>>

\* another Redis client pushes an entry that is not a job of upload_document:
\* text that is not JSON, or JSON that is not an object
ForeignKinds == {"notjson", "nonobject"}

ForeignPush(kind) ==
  /\ nextId <= MaxJobs
  /\ queue' = lpush(queue, [id |-> nextId, kind |-> kind])
  /\ nextId' = nextId + 1
  /\ run' = [run EXCEPT ![nextId].kind = kind, ![nextId].fate = "queued"]
  /\ UNCHANGED <<store, intake, num_workers, running, spc, pc, cur, wsd,
                 lastResp, call>>

\* the TTL of 3600 s of a status key runs out
Expire(d) ==
  /\ store[d] # NoRecord
  /\ setex(d, NoRecord)
  /\ UNCHANGED <<queue, nextId, intake, num_workers, running, spc, pc, cur,
                 wsd, run, lastResp, call>>

(***************************************************************************)
(* Status endpoint: get_document_status                                    *)
(***************************************************************************)
get_document_status(d) ==
  IF store[d] = NoRecord
  THEN \* redis get returns None: not a str, HTTPException(500) re-raised
       [doc |-> d, found |-> FALSE, code |-> 500,
        detail |-> "Corrupt document data in Redis", status |-> ""]
  ELSE [doc |-> d, found |-> TRUE, code |-> 200, detail |-> "",
        status |-> store[d].status]

GetStatus(d) ==
  /\ lastResp' = get_document_status(d)
  /\ UNCHANGED <<queue, store, nextId, intake, num_workers, running, spc, pc,
                 cur, wsd, run, call>>

(***************************************************************************)
(* Supervisor: AgentManager                                                *)
(***************************************************************************)
\* on_startup -> start_agents: running is set, one thread per worker slot
StartAgents ==
  /\ \A s \in Workers : spc[s] = "idle"
  /\ running' = TRUE
  /\ spc' = [s \in Workers |-> IF s <= num_workers THEN "loop" ELSE "idle"]
  /\ UNCHANGED <<queue, store, nextId, intake, num_workers, pc, cur, wsd, run,
                 lastResp, call>>

\* stop_agents
StopAgents ==
  /\ running
  /\ running' = FALSE
  /\ UNCHANGED <<queue, store, nextId, intake, num_workers, spc, pc, cur, wsd,
                 run, lastResp, call>>

\* _run_agent, line 58: "while self.running"
run_agent_loop(s) == IF running THEN "popen" ELSE "stopped"

SupLoop(s) ==
  /\ spc[s] = "loop"
  /\ spc' = [spc EXCEPT ![s] = run_agent_loop(s)]
  /\ UNCHANGED <<queue, store, nextId, intake, num_workers, running, pc, cur,
                 wsd, run, lastResp, call>>

\* line 61 with the queue key deleted for a clean start of the worker
SupPopen_FlushesQueue(s) ==
  /\ spc[s] = "popen"
  /\ spc' = [spc EXCEPT ![s] = "wait"]
  /\ pc' = [pc EXCEPT ![s] = "start"]
  /\ queue' = <<>>
  /\ UNCHANGED <<store, nextId, intake, num_workers, running, cur, wsd, run,
                 lastResp, call>>

\* line 61: subprocess.Popen starts agent.py
SupPopen(s) ==
  /\ spc[s] = "popen"
  /\ spc' = [spc EXCEPT ![s] = "wait"]
  /\ pc' = [pc EXCEPT ![s] = "start"]
  /\ UNCHANGED <<queue, store, nextId, intake, num_workers, running, cur, wsd,
                 run, lastResp, call>>

\* line 61 raises (the process cannot be created): lines 65-67
SupPopenFail(s) ==
  /\ spc[s] = "popen"
  /\ spc' = [spc EXCEPT ![s] = "sleep"]
  /\ UNCHANGED <<queue, store, nextId, intake, num_workers, running, pc, cur,
                 wsd, run, lastResp, call>>

\* proc.wait() left out: the thread goes on while the process runs
SupWait_NoWait(s) ==
  /\ spc[s] = "wait"
  /\ spc' = [spc EXCEPT ![s] = "sleep"]
  /\ UNCHANGED <<queue, store, nextId, intake, num_workers, running, pc, cur,
                 wsd, run, lastResp, call>>

\* lines 62-64: proc.wait() returns once the process has exited
SupWait(s) ==
  /\ spc[s] = "wait"
  /\ pc[s] = "exited"
  /\ spc' = [spc EXCEPT ![s] = "sleep"]
  /\ pc' = [pc EXCEPT ![s] = "off"]
  /\ UNCHANGED <<queue, store, nextId, intake, num_workers, running, cur, wsd,
                 run, lastResp, call>>

\* the thread returning after the sleep instead of looping
SupSleep_Returns(s) ==
  /\ spc[s] = "sleep"
  /\ spc' = [spc EXCEPT ![s] = "stopped"]
  /\ UNCHANGED <<queue, store, nextId, intake, num_workers, running, pc, cur,
                 wsd, run, lastResp, call>>

\* time.sleep(2) is over: the loop condition is evaluated again
SupSleep(s) ==
  /\ spc[s] = "sleep"
  /\ spc' = [spc EXCEPT ![s] = run_agent_loop(s)]
  /\ UNCHANGED <<queue, store, nextId, intake, num_workers, running, pc, cur,
                 wsd, run, lastResp, call>>

(***************************************************************************)
(* Worker: agent.py                                                        *)
(***************************************************************************)
\* module level, lines 16-36: Redis answers the ping, main() starts
WorkerInit(w) ==
  /\ pc[w] = "start"
  /\ pc' = [pc EXCEPT ![w] = "poll"]
  /\ UNCHANGED <<queue, store, nextId, intake, num_workers, running, spc, cur,
                 wsd, run, lastResp, call>>

\* lines 34-36: the ping fails, the process ends with ConnectionError
WorkerInitFail(w) ==
  /\ pc[w] = "start"
  /\ pc' = [pc EXCEPT ![w] = "exited"]
  /\ UNCHANGED <<queue, store, nextId, intake, num_workers, running, spc, cur,
                 wsd, run, lastResp, call>>

\* the first except clause without json.JSONDecodeError
except_clause_JsonFatal(exc) ==
  IF exc \in {"KeyError", "TypeError"} THEN "caught" ELSE "raise"

\* the except clauses of main, lines 317-323: the error is logged and the
\* loop goes on, or it is raised again and ends the process
except_clause(exc) ==
  IF exc \in {"JSONDecodeError", "KeyError", "TypeError"}
  THEN "caught" ELSE "raise"

\* check_redis reading the tail without removing it (LINDEX for RPOP)
check_redis_Peek(q) == [v |-> q[Len(q)], q |-> q]

\* check_redis
check_redis(q) == rpop(q)

\* lines 252-254 of main on a queue entry: json.loads and job_data.get
ParseJob(job) ==
  CASE job.kind = "notjson"   -> "JSONDecodeError"
    [] job.kind = "nonobject" -> "AttributeError"
    [] OTHER                  -> "none"

\* a "processing" status written when the job is dequeued
Poll_MarksProcessing(w) ==
  /\ pc[w] = "poll"
  /\ queue # <<>>
  /\ LET r   == check_redis(queue)
         e   == r.v.id
         exc == ParseJob(r.v)
         h   == IF exc = "none" THEN "call" ELSE except_clause(exc)
     IN  /\ queue' = r.q
         /\ pc' = [pc EXCEPT ![w] = CASE h = "call"   -> "extract"
                                      [] h = "caught" -> "poll"
                                      [] OTHER        -> "exited"]
         /\ cur' = [cur EXCEPT ![w] = IF h = "call" THEN e ELSE 0]
         /\ IF h = "call"
            THEN setex(e, StatusData("processing", NoInfo, PyNone))
            ELSE UNCHANGED store
         /\ run' = [run EXCEPT ![e].deliveries = @ + 1,
                               ![e].calls = IF h = "call" THEN @ + 1 ELSE @,
                               ![e].writes = IF h = "call" THEN @ + 1 ELSE @,
                               ![e].written = IF h = "call" THEN "processing"
                                              ELSE @,
                               ![e].fate = CASE h = "call"   -> "running"
                                             [] h = "caught" -> "caught"
                                             [] OTHER        -> "raised"]
  /\ UNCHANGED <<nextId, intake, num_workers, running, spc, wsd, lastResp,
                 call>>

\* lines 246-260: a job is popped and parsed; the extraction call is sent
Poll(w) ==
  /\ pc[w] = "poll"
  /\ queue # <<>>
  /\ LET r   == check_redis(queue)
         e   == r.v.id
         exc == ParseJob(r.v)
         h   == IF exc = "none" THEN "call" ELSE except_clause(exc)
     IN  /\ queue' = r.q
         /\ pc' = [pc EXCEPT ![w] = CASE h = "call"   -> "extract"
                                      [] h = "caught" -> "poll"
                                      [] OTHER        -> "exited"]
         /\ cur' = [cur EXCEPT ![w] = IF h = "call" THEN e ELSE 0]
         /\ run' = [run EXCEPT ![e].deliveries = @ + 1,
                               ![e].calls = IF h = "call" THEN @ + 1 ELSE @,
                               ![e].fate = CASE h = "call"   -> "running"
                                             [] h = "caught" -> "caught"
                                             [] OTHER        -> "raised"]
  /\ UNCHANGED <<store, nextId, intake, num_workers, running, spc, wsd,
                 lastResp, call>>

\* the condition of line 271 inverted
RouteInverted(chk) == IF chk.complete THEN "email_draft" ELSE "emr_sync"

\* line 271 of main: "if is_complete"
Route(chk) == IF chk.complete THEN "emr_sync" ELSE "email_draft"

\* lines 260-288 of main, from the response of the extraction call up to a
\* status write, the sending of the draft call, or an exception
AfterExtraction(response) ==
  LET structured_data == llm_assistend_extraction(response)
      base == [next |-> "write", status |-> "", info |-> NoInfo,
               sd |-> structured_data, validated |-> FALSE, emr |-> FALSE,
               drafted |-> FALSE]
  IN  IF structured_data.t = "null"
      THEN [base EXCEPT !.status = "extraction_failed",
                        !.info = [NoInfo EXCEPT !.text = "LLM extraction failed"],
                        !.sd = PyNone]
      ELSE LET chk == check_required_fields(structured_data)
               val == [base EXCEPT !.validated = TRUE]
           IN  IF chk.exc # "none"
               THEN [val EXCEPT !.next = except_clause(chk.exc)]
               ELSE IF Route(chk) = "emr_sync"
               THEN LET emr_result == mock_emr_sync(structured_data)
                    IN  IF emr_result.exc # "none"
                        THEN [val EXCEPT !.next = except_clause(emr_result.exc),
                                         !.emr = TRUE]
                        ELSE [val EXCEPT !.status = "emr_synced",
                                         !.info = emr_result.v, !.emr = TRUE]
               ELSE LET exc == DraftCall(structured_data)
                    IN  IF exc # "none"
                        THEN [val EXCEPT !.next = except_clause(exc),
                                !.drafted = isinstance_dict(structured_data)]
                        ELSE [val EXCEPT !.next = "draft", !.drafted = TRUE]

\* lines 290-311 of main, from the response of the draft call on
AfterDraft(structured_data, response) ==
  LET email_draft    == draft_request_email(response)
      missing_fields == check_required_fields(structured_data).missing
      base == [next |-> "write", status |-> "", info |-> NoInfo]
  IN  IF Truthy(email_draft)
      THEN LET c2 == ContactTarget(structured_data)
               email_result == mock_send_email(email_draft, c2.v)
           IN  IF c2.exc # "none"
               THEN [base EXCEPT !.next = except_clause(c2.exc)]
               ELSE IF email_result.exc # "none"
               THEN [base EXCEPT !.next = except_clause(email_result.exc)]
               ELSE [base EXCEPT !.status = "missing_fields_email_sent",
                       !.info = [NoInfo EXCEPT
                                   !.missing_fields = missing_fields,
                                   !.result_status = email_result.status,
                                   !.recipient = email_result.recipient,
                                   !.contact_info = c2.v]]
      ELSE [base EXCEPT !.status = "email_draft_failed",
              !.info = [NoInfo EXCEPT !.missing_fields = missing_fields]]

\* AfterExtraction and AfterDraft on every response of the model (the
\* record of the draft call is named by its JSON text)
ExtractionOutcome ==
  [response \in ExtractionResponses |-> AfterExtraction(response)]

DraftOutcome ==
  [text \in JsonTexts |->
     [response \in DraftResponses |-> AfterDraft(JsonTable[text], response)]]

\* the fate of a queue entry after a step of its pipeline
Fate(next) == CASE next = "write"  -> "written"
                [] next = "caught" -> "caught"
                [] next = "raise"  -> "raised"
                [] OTHER           -> "running"

\* where the worker goes after a step of the pipeline
After(next) == CASE next = "draft" -> "draft"
                 [] next = "raise" -> "exited"
                 [] OTHER          -> "poll"

\* chat_with_gpt4 returns the response of the extraction call
ExtractReturn(w, response) ==
  /\ pc[w] = "extract"
  /\ LET o == ExtractionOutcome[response]
         e == cur[w]
     IN  /\ pc' = [pc EXCEPT ![w] = After(o.next)]
         /\ cur' = [cur EXCEPT ![w] = IF o.next = "draft" THEN e ELSE 0]
         /\ wsd' = [wsd EXCEPT ![w] = IF o.next = "draft" THEN o.sd ELSE PyNone]
         /\ IF o.next = "write"
            THEN setex(e, StatusData(o.status, o.info, o.sd))
            ELSE UNCHANGED store
         /\ run' = [run EXCEPT ![e].resp = response,
                               ![e].validated = o.validated,
                               ![e].emr = o.emr,
                               ![e].drafted = o.drafted,
                               ![e].fate = Fate(o.next),
                               ![e].writes = IF o.next = "write" THEN @ + 1 ELSE @,
                               ![e].written = IF o.next = "write" THEN o.status ELSE @]
  /\ UNCHANGED <<queue, nextId, intake, num_workers, running, spc, lastResp,
                 call>>

\* chat_with_gpt4 returns the response of the draft call
DraftReturn(w, response) ==
  /\ pc[w] = "draft"
  /\ LET o == DraftOutcome[json_dumps(wsd[w])][response]
         e == cur[w]
     IN  /\ pc' = [pc EXCEPT ![w] = After(o.next)]
         /\ cur' = [cur EXCEPT ![w] = 0]
         /\ wsd' = [wsd EXCEPT ![w] = PyNone]
         /\ IF o.next = "write"
            THEN setex(e, StatusData(o.status, o.info, wsd[w]))
            ELSE UNCHANGED store
         /\ run' = [run EXCEPT ![e].dresp = response,
                               ![e].fate = Fate(o.next),
                               ![e].writes = IF o.next = "write" THEN @ + 1 ELSE @,
                               ![e].written = IF o.next = "write" THEN o.status ELSE @]
  /\ UNCHANGED <<queue, nextId, intake, num_workers, running, spc, lastResp,
                 call>>

\* the job put back on the queue for another attempt before the error is
\* raised again
LLMRaise_Requeue(w) ==
  /\ pc[w] \in {"extract", "draft"}
  /\ pc' = [pc EXCEPT ![w] = After(except_clause("APIError"))]
  /\ cur' = [cur EXCEPT ![w] = 0]
  /\ wsd' = [wsd EXCEPT ![w] = PyNone]
  /\ queue' = lpush(queue, [id |-> cur[w], kind |-> "job"])
  /\ run' = [run EXCEPT ![cur[w]].fate = "queued"]
  /\ UNCHANGED <<store, nextId, intake, num_workers, running, spc, lastResp,
                 call>>

\* a failure status written for the job before the error is raised again
LLMRaise_WritesStatus(w) ==
  /\ pc[w] \in {"extract", "draft"}
  /\ pc' = [pc EXCEPT ![w] = After(except_clause("APIError"))]
  /\ cur' = [cur EXCEPT ![w] = 0]
  /\ wsd' = [wsd EXCEPT ![w] = PyNone]
  /\ setex(cur[w], StatusData("extraction_failed", NoInfo, PyNone))
  /\ run' = [run EXCEPT ![cur[w]].fate = Fate(except_clause("APIError"))]
  /\ UNCHANGED <<queue, nextId, intake, num_workers, running, spc, lastResp,
                 call>>

\* chat_with_gpt4 raises (an error of the OpenAI client) in either call
LLMRaise(w) ==
  /\ pc[w] \in {"extract", "draft"}
  /\ pc' = [pc EXCEPT ![w] = After(except_clause("APIError"))]
  /\ cur' = [cur EXCEPT ![w] = 0]
  /\ wsd' = [wsd EXCEPT ![w] = PyNone]
  /\ run' = [run EXCEPT ![cur[w]].fate = Fate(except_clause("APIError"))]
  /\ UNCHANGED <<queue, store, nextId, intake, num_workers, running, spc,
                 lastResp, call>>

\* chat_with_gpt4 never returns: the call has no timeout of its own and the
\* worker runs one job at a time, so the process stays in the call
LLMHang(w) ==
  /\ pc[w] \in {"extract", "draft"}
  /\ pc' = [pc EXCEPT ![w] = "hung"]
  /\ UNCHANGED <<queue, store, nextId, intake, num_workers, running, spc, cur,
                 wsd, run, lastResp, call>>

(***************************************************************************)
(* check_required_fields and the contact resolution applied on their own   *)
(***************************************************************************)
\* d with key set to v, and d without key
With(d, key, v) ==
  Dict([k \in DOMAIN d.f \cup {key} |-> IF k = key THEN v ELSE d.f[k]])

Without(d, key) == Dict([k \in DOMAIN d.f \ {key} |-> d.f[k]])

\* a key of a record taking each of the values vs, or left out
Vary(d, key, vs) == {With(d, key, v) : v \in vs} \cup {Without(d, key)}

\* values a "contact" can hold in the JSON the language model returns
ContactShapes ==
  {PyNone, EmptyDict, Str("555-0100"), Num, List,
   Dict([phone |-> Str("")]), Dict([email |-> Str("a@clinic")])}
  \cup {Contact(email, phone, address) :
          email \in {"", "a@clinic", NoContact.s},
          phone \in {"", "555-0100"}, address \in {"", "1 Main St"}}

\* values a provider can hold
ProviderShapes ==
  {PyNone, Str("Dr A"), EmptyDict, Dict([name |-> Str("Dr A")])}
  \cup {Dict([contact |-> c]) : c \in ContactShapes}
  \cup {Provider(name, c) : name \in {"", "Dr A"}, c \in ContactShapes}

ReceivingShapes ==
  {Provider("Dr B", Contact("", "555-0100", "")),
   Provider("Dr B", Contact("b@clinic", "555-0199", "2 High St")),
   Provider("Dr B", Contact("", "", "")),
   Provider("Dr B", Str("555-0100"))}

PatientShapes ==
  {PyNone, Str("Pat"), Num, List, EmptyDict,
   Dict([name |-> Str("Pat")]),
   Dict([date_of_birth |-> Str("2000-01-01")]),
   Dict([name |-> Str(""), date_of_birth |-> Str("2000-01-01")]),
   Dict([name |-> Str("Pat"), date_of_birth |-> PyNone]),
   Dict([name |-> Str("Pat"), date_of_birth |-> Str("2000-01-01")])}

\* the arguments: records that differ from a complete one in the providers,
\* or in the patient and the top-level fields, and values that are no record
ProviderInputs ==
  UNION {UNION {Vary(d, "receiving_provider", ReceivingShapes) :
                  d \in Vary(base, "referring_provider", ProviderShapes)} :
           base \in {Complete, NoDob}}

PatientInputs == Vary(Complete, "patient", PatientShapes)

ReasonInputs ==
  UNION {Vary(d, "reason_for_referral",
              {PyNone, Str(""), Str("reason"), Num, List}) :
           d \in PatientInputs}

FieldInputs ==
  UNION {Vary(d, "requested_action", {Str(""), Str("action")}) :
           d \in ReasonInputs}

Inputs ==
  ProviderInputs \cup FieldInputs
    \cup {PyNone, EmptyDict, Str(""), Str("abc"), Num, List}

\* check_required_fields(data) called on its own
CallCheck ==
  /\ call.f = "none"
  /\ LET r == check_required_fields(call.arg)
     IN  call' = [call EXCEPT !.f = "check_required_fields",
                    !.ret = [NoRet EXCEPT !.exc = r.exc,
                               !.complete = r.complete, !.missing = r.missing]]
  /\ UNCHANGED <<queue, store, nextId, intake, num_workers, running, spc, pc,
                 cur, wsd, run, lastResp>>

\* lines 292-297 of main on their own; main reaches them with a record found
\* incomplete for which the draft call was made
CallContact ==
  /\ call.f = "none"
  /\ call.arg.t # "null"
  /\ LET chk == check_required_fields(call.arg)
     IN  chk.exc = "none" /\ ~chk.complete
  /\ DraftCall(call.arg) = "none"
  /\ LET r == ContactTarget(call.arg)
     IN  call' = [call EXCEPT !.f = "get_contact_info",
                    !.ret = [NoRet EXCEPT !.exc = r.exc, !.v = r.v]]
  /\ UNCHANGED <<queue, store, nextId, intake, num_workers, running, spc, pc,
                 cur, wsd, run, lastResp>>

(***************************************************************************)
(* Specifications                                                          *)
(***************************************************************************)
\* what the system does apart from the language model's responses and the
\* status queries
System ==
  \/ UploadPush
  \/ UploadSet
  \/ \E kind \in ForeignKinds : ForeignPush(kind)
  \/ \E d \in Ids : Expire(d)
  \/ StartAgents
  \/ StopAgents
  \/ \E s \in Workers : SupLoop(s)
  \/ \E s \in Workers : SupPopen(s)
  \/ \E s \in Workers : SupPopenFail(s)
  \/ \E s \in Workers : SupWait(s)
  \/ \E s \in Workers : SupSleep(s)
  \/ \E w \in Workers : WorkerInit(w)
  \/ \E w \in Workers : WorkerInitFail(w)
  \/ \E w \in Workers : Poll(w)
  \/ \E w \in Workers : LLMRaise(w)

\* Spec: up to MaxWorkers workers and MaxJobs queue entries (jobs and
\* foreign entries) interleave.  Records do not expire and a started worker
\* reaches its loop; a worker dies when the language-model call raises.
\* stop_agents has no caller in the source and is left to SpecPipeline.
Next ==
  \/ UploadPush
  \/ UploadSet
  \/ \E kind \in ForeignKinds : ForeignPush(kind)
  \/ StartAgents
  \/ \E s \in Workers : SupLoop(s)
  \/ \E s \in Workers : SupPopen(s)
  \/ \E s \in Workers : SupPopenFail(s)
  \/ \E s \in Workers : SupWait(s)
  \/ \E s \in Workers : SupSleep(s)
  \/ \E w \in Workers : WorkerInit(w)
  \/ \E w \in Workers : Poll(w)
  \/ \E w \in Workers : LLMRaise(w)
  \/ \E w \in Workers, response \in CoreExtractionResponses :
        ExtractReturn(w, response)
  \/ \E w \in Workers, response \in CoreDraftResponses :
        DraftReturn(w, response)

Spec == Init /\ [][Next]_vars

\* SpecPipeline: the program as main.py configures it (num_workers = 1) with
\* one queue entry, every class of response, status queries and rejected
\* uploads
InitPipeline == call = NoCall /\ InitState(1, MaxJobs)

NextPipeline ==
  \/ System
  \/ \E w \in Workers, response \in ExtractionResponses :
        ExtractReturn(w, response)
  \/ \E w \in Workers, response \in DraftResponses :
        DraftReturn(w, response)
  \/ \E d \in Ids : GetStatus(d)
  \/ \E file \in Files : UploadReject(file)

SpecPipeline == InitPipeline /\ [][NextPipeline]_vars

\* SpecLive: the workers, the supervisor and the intake under fair
\* scheduling.  The language-model call answers with a complete record or
\* raises, which ends the worker; no foreign entries, no expiry.  stop_agents
\* has no caller in the source, so the supervisor is not stopped here.
LiveResponses == {"complete"}

NextLive ==
  \/ UploadPush
  \/ UploadSet
  \/ StartAgents
  \/ \E s \in Workers : SupLoop(s)
  \/ \E s \in Workers : SupPopen(s)
  \/ \E s \in Workers : SupPopenFail(s)
  \/ \E s \in Workers : SupWait(s)
  \/ \E s \in Workers : SupSleep(s)
  \/ \E w \in Workers : WorkerInit(w)
  \/ \E w \in Workers : WorkerInitFail(w)
  \/ \E w \in Workers : Poll(w)
  \/ \E w \in Workers : LLMRaise(w)
  \/ \E w \in Workers, response \in LiveResponses : ExtractReturn(w, response)

\* the language-model call of worker w comes back, with a response or an error
LLMAnswers(w) ==
  \/ \E response \in LiveResponses : ExtractReturn(w, response)
  \/ LLMRaise(w)

\* Threads and processes that can take a step eventually take it; the startup
\* event fires; an upload handler runs to its end.  Process creation and the
\* Redis connection of a starting worker do not fail forever (SF).  Nothing is
\* assumed of new uploads or of failures.
Fairness ==
  /\ WF_vars(StartAgents)
  /\ WF_vars(UploadSet)
  /\ \A s \in Workers :
       /\ WF_vars(SupLoop(s))
       /\ SF_vars(SupPopen(s))
       /\ WF_vars(SupWait(s))
       /\ WF_vars(SupSleep(s))
  /\ \A w \in Workers :
       /\ SF_vars(WorkerInit(w))
       /\ WF_vars(Poll(w))
       /\ WF_vars(LLMAnswers(w))

SpecLive == Init /\ [][NextLive]_vars /\ Fairness

\* SpecSupervisor: the steps of SpecLive and stop_agents, without fairness
NextSupervisor == NextLive \/ StopAgents

SpecSupervisor == Init /\ [][NextSupervisor]_vars

\* SpecHang: fair scheduling as in SpecLive, with a language-model call that
\* either returns a response or never returns.  The responses are a complete
\* record, a JSON number and a record with a null provider.
HangResponses == {"complete", "number", "providerNull"}

NextHang ==
  \/ UploadPush
  \/ UploadSet
  \/ StartAgents
  \/ \E s \in Workers : SupLoop(s)
  \/ \E s \in Workers : SupPopen(s)
  \/ \E s \in Workers : SupWait(s)
  \/ \E s \in Workers : SupSleep(s)
  \/ \E w \in Workers : WorkerInit(w)
  \/ \E w \in Workers : Poll(w)
  \/ \E w \in Workers : LLMHang(w)
  \/ \E w \in Workers, response \in HangResponses : ExtractReturn(w, response)

\* a call that can return does return (a call that hangs is in "hung")
LLMReturns(w) == \E response \in HangResponses : ExtractReturn(w, response)

FairnessHang ==
  /\ WF_vars(StartAgents)
  /\ WF_vars(UploadSet)
  /\ \A s \in Workers :
       /\ WF_vars(SupLoop(s))
       /\ WF_vars(SupPopen(s))
       /\ WF_vars(SupWait(s))
       /\ WF_vars(SupSleep(s))
  /\ \A w \in Workers :
       /\ WF_vars(WorkerInit(w))
       /\ WF_vars(Poll(w))
       /\ WF_vars(LLMReturns(w))

SpecHang == Init /\ [][NextHang]_vars /\ FairnessHang

\* SpecFunctions: check_required_fields and the contact resolution applied
\* to each of Inputs
InitFunctions ==
  /\ call \in {[NoCall EXCEPT !.arg = data] : data \in Inputs}
  /\ InitState(1, 1)

NextFunctions == CallCheck \/ CallContact

SpecFunctions == InitFunctions /\ [][NextFunctions]_vars

(***************************************************************************)
(* Properties                                                              *)
(***************************************************************************)
\* queue entries that are jobs of upload_document and were dequeued
Dequeued(e) == run[e].kind = "job" /\ run[e].deliveries > 0

\* the pipeline of entry e is over
Ended(e) == run[e].fate \in {"written", "caught", "raised"}

\* the extraction call of entry e has returned a response
Answered(e) == run[e].resp \in ExtractionResponses

\* check_required_fields on the record extracted from each response
Validation ==
  [response \in ExtractionResponses |->
     check_required_fields(llm_assistend_extraction(response))]

\* C1: every error of the pipeline of a dequeued job is caught inside the
\* per-job boundary of main: the worker does not terminate because of it and
\* a terminal status is written for the document.
C1_EveryErrorBecomesAStatus ==
  \A e \in Ids :
    Dequeued(e) /\ Ended(e) =>
      run[e].fate = "written" /\ run[e].written \in Terminal

\* C2: once the status record of a document holds a terminal status it
\* never holds ocr_complete again.
C2_NeverBackToOcrComplete ==
  [][\A d \in Ids :
       store[d].status \in Terminal => store'[d].status # "ocr_complete"]_vars

\* the required fields of a record, read off the record itself
Filled(d, key) ==
  d.t = "dict" /\ key \in DOMAIN d.f /\ Truthy(d.f[key])

Reachable(d) ==
  /\ Filled(d, "name")
  /\ Filled(d, "contact")
  /\ \/ Filled(d.f["contact"], "phone")
     \/ Filled(d.f["contact"], "email")
     \/ Filled(d.f["contact"], "address")

RequiredSatisfied(data) ==
  /\ Filled(data, "referring_provider")
  /\ Reachable(data.f["referring_provider"])
  /\ Filled(data, "receiving_provider")
  /\ Reachable(data.f["receiving_provider"])
  /\ Filled(data, "patient")
  /\ Filled(data.f["patient"], "name")
  /\ Filled(data.f["patient"], "date_of_birth")
  /\ Filled(data, "reason_for_referral")
  /\ Filled(data, "requested_action")

\* C3: routing follows the validation result.  A record found complete is
\* synced to the EMR and stored as emr_synced with the sync result
\* (status "synced"); a record found incomplete is never synced and never
\* stored as emr_synced; a stored emr_synced record satisfies every
\* required field.
C3_RoutingFollowsValidation ==
  /\ \A e \in Ids :
       Answered(e) /\ run[e].validated =>
         LET chk == Validation[run[e].resp]
         IN  IF chk.exc = "none" /\ chk.complete
             THEN /\ run[e].emr
                  /\ run[e].fate = "written"
                  /\ run[e].written = "emr_synced"
             ELSE /\ ~run[e].emr
                  /\ run[e].written # "emr_synced"
  /\ \A d \in Ids :
       store[d].status = "emr_synced" =>
         /\ store[d].additional_info.result_status = "synced"
         /\ RequiredSatisfied(JsonTable[store[d].structured_data])
         /\ run[d].emr

C3_Witness ==
  \E d \in Ids :
    /\ run[d].emr
    /\ store[d].status = "emr_synced"
    /\ store[d].structured_data = "complete"

\* C4: every extracted record that validation finds incomplete (a provider
\* absent, null or not a record included) has the email draft attempted and
\* ends with email_draft_failed or missing_fields_email_sent.
C4_IncompleteEndsInAnEmailStatus ==
  \A e \in Ids :
    (/\ Answered(e)
     /\ run[e].validated
     /\ isinstance_dict(llm_assistend_extraction(run[e].resp))
     /\ Validation[run[e].resp].exc = "none"
     /\ ~Validation[run[e].resp].complete
     /\ Ended(e))
    => /\ run[e].fate = "written"
       /\ run[e].written \in {"email_draft_failed", "missing_fields_email_sent"}

\* valid JSON that does not hold the StructuredReferral schema
NonSchemaResponses == {"emptyObject", "number", "array"}

\* C5: a response that is valid JSON without the schema is an extraction
\* failure: the extraction yields null and the final status is
\* extraction_failed, never a status of the routing branches.
C5_NonSchemaIsExtractionFailure ==
  \A e \in Ids :
    run[e].resp \in NonSchemaResponses /\ Ended(e) =>
      /\ llm_assistend_extraction(run[e].resp) = PyNone
      /\ run[e].fate = "written"
      /\ run[e].written = "extraction_failed"

\* responses that are absent, empty or not JSON
UnparsedResponses == {Absent, EmptyText, Garbage}

C7_AtMostOneDelivery ==
  /\ \A e \in Ids : run[e].deliveries <= 1
  /\ \A w1, w2 \in Workers : w1 # w2 /\ cur[w1] # 0 => cur[w1] # cur[w2]
  /\ \A e \in Ids : run[e].deliveries = 1 =>
       \A i \in 1..Len(queue) : queue[i].id # e

C7_Witness ==
  \E w1, w2 \in Workers :
    /\ w1 # w2
    /\ cur[w1] # 0 /\ cur[w2] # 0
    /\ run[cur[w1]].deliveries = 1 /\ run[cur[w2]].deliveries = 1

\* C8: a status query for a document whose record has expired or was never
\* written returns "unknown": neither a record nor an error response.
C8_MissingRecordIsUnknown ==
  lastResp.doc # 0 /\ ~lastResp.found =>
    /\ lastResp.code # 500
    /\ lastResp.status = ""

\* a worker process that has terminated, or a process that could not be
\* started, while the supervisor is running
Terminated(s) == (pc[s] = "exited" \/ spc[s] = "sleep") /\ running

\* C9: while the supervisor is running, whenever the worker process of a
\* slot terminates (or cannot be started), the slot eventually starts a new
\* worker process; this holds after every termination.
C9_RestartAfterTermination ==
  \A s \in Workers : Terminated(s) ~> pc[s] = "start"

\* a job made the only worker raise, and a new process has been started
C9_Witness ==
  /\ num_workers = 1
  /\ \E e \in Ids : run[e].fate = "raised"
  /\ pc[1] = "start"
  /\ running

\* a step in which a worker process ends
CrashStep == \E w \in Workers : pc[w] # "exited" /\ pc'[w] = "exited"

\* a step of a supervisor thread
SupervisorStep == \E s \in Workers : spc'[s] # spc[s]

\* the queue is as before, but for the entry the crashing worker popped
OthersKept ==
  \/ queue' = queue
  \/ /\ queue # <<>>
     /\ queue' = SubSeq(queue, 1, Len(queue) - 1)
     /\ run'[queue[Len(queue)].id].fate = "raised"

Range(seq) == {seq[i] : i \in 1..Len(seq)}

\* the value at the end of a dotted path is absent, sits under a value that
\* is not a record, or is empty
Defective(data, parts) ==
  IF Len(parts) = 1
  THEN ~Filled(data, parts[1])
  ELSE ~(/\ data.t = "dict"
         /\ parts[1] \in DOMAIN data.f
         /\ Filled(data.f[parts[1]], parts[2]))

Checked == call.f = "check_required_fields"

\* C11: for a non-empty record, check_required_fields lists the exact path
\* string of every required path that has an absent segment, an intermediate
\* value that is not a record, or an empty terminal value; and the result is
\* complete exactly when the missing list is empty.
C11_ListsEveryDefectivePath ==
  Checked /\ call.arg.t = "dict" /\ Truthy(call.arg) =>
    /\ \A i \in 1..Len(required_fields) :
         Defective(call.arg, required_fields[i].parts) =>
           required_fields[i].name \in Range(call.ret.missing)
    /\ call.ret.complete <=> call.ret.missing = <<>>

\* the two required paths that end in .contact
ContactPaths == {i \in 1..Len(required_fields) :
                   EndsWithContact(required_fields[i])}

\* the value of a contact path that is present and not empty
HasContactValue(data, parts) == ~Defective(data, parts)

ContactValue(data, parts) == data.f[parts[1]].f[parts[2]]

AnyOfThree(contact) ==
  \/ Filled(contact, "phone")
  \/ Filled(contact, "email")
  \/ Filled(contact, "address")

\* C12: for each .contact path holding a non-empty value: a record with
\* phone, email and address all empty is reported with the annotation
\* " (phone, email, or address)"; a record with one of the three non-empty is
\* not reported; any other value is satisfied or reported, never an error.
C12_ContactAlternatives ==
  Checked =>
    \A i \in ContactPaths :
      LET field == required_fields[i]
      IN  HasContactValue(call.arg, field.parts) =>
            LET contact == ContactValue(call.arg, field.parts)
            IN  /\ call.ret.exc = "none"
                /\ contact.t = "dict" /\ ~AnyOfThree(contact) =>
                     /\ field.annotated \in Range(call.ret.missing)
                     /\ field.name \notin Range(call.ret.missing)
                /\ contact.t = "dict" /\ AnyOfThree(contact) =>
                     /\ field.annotated \notin Range(call.ret.missing)
                     /\ field.name \notin Range(call.ret.missing)

\* C13: check_required_fields(None) is (False, [sentinel]): not complete,
\* one entry, no path of the traversal, no exception.
C13_AbsentDataIsSentinel ==
  Checked /\ call.arg = PyNone =>
    /\ call.ret.exc = "none"
    /\ ~call.ret.complete
    /\ call.ret.missing = <<Sentinel>>
    /\ \A i \in 1..Len(required_fields) :
         required_fields[i].name \notin Range(call.ret.missing)

C13_Witness == Checked /\ call.arg = PyNone

\* the first non-empty of email, phone, address of a contact record
Best(contact) ==
  IF Filled(contact, "email") THEN contact.f["email"]
  ELSE IF Filled(contact, "phone") THEN contact.f["phone"]
  ELSE contact.f["address"]

\* C14: the contact target is the referring provider's email if non-empty,
\* else its phone, else its address; the receiving provider's contact (same
\* order) is the target only when the referring provider has none of the
\* three.
C14_ReferringContactFirst ==
  call.f = "get_contact_info" /\ call.ret.exc = "none" =>
    LET referring == Get(Get(call.arg, "referring_provider", EmptyDict),
                         "contact", EmptyDict)
        receiving == Get(Get(call.arg, "receiving_provider", EmptyDict),
                         "contact", EmptyDict)
    IN  IF AnyOfThree(referring)
        THEN call.ret.v = Best(referring)
        ELSE AnyOfThree(receiving) => call.ret.v = Best(receiving)

\* the records the pipeline run of document d can have written: the write
\* after the extraction call, or a write after the draft call
WorkerRecords(d) ==
  IF run[d].resp \notin ExtractionResponses THEN {}
  ELSE LET o == ExtractionOutcome[run[d].resp]
       IN  CASE o.next = "write" ->
                  {StatusData(o.status, o.info, o.sd)}
             [] o.next = "draft" ->
                  {StatusData(x.status, x.info, o.sd) :
                     x \in {y \in {DraftOutcome[json_dumps(o.sd)][response] :
                                     response \in DraftResponses} :
                              y.next = "write"}}
             [] OTHER -> {}

\* C15: the structured_data of a stored record is null or the whole record
\* of one extraction call: emr_synced, missing_fields_email_sent and
\* email_draft_failed carry the record extracted in that run,
\* extraction_failed carries null, and every stored record is the record of
\* one write (of the intake handler or of the worker), never a mix of two.
C15_StructuredDataIsOneExtraction ==
  \A d \in Ids :
    /\ store[d] \in {NoRecord, JobData} \cup WorkerRecords(d)
    /\ store[d].status \in Terminal \ {"extraction_failed"} =>
         /\ Answered(d)
         /\ store[d].structured_data # "null"
         /\ JsonTable[store[d].structured_data]
              = llm_assistend_extraction(run[d].resp)
    /\ store[d].status \in {"extraction_failed", "ocr_complete", ""} =>
         store[d].structured_data = "null"

C15_Witness ==
  \E d \in Ids :
    /\ run[d].resp = "noDateOfBirth"
    /\ store[d].status = "missing_fields_email_sent"
    /\ store[d].structured_data = "noDateOfBirth"

\* the draft call of entry e returned a non-empty record
DraftSucceeded(e) ==
  /\ run[e].dresp \in DraftResponses
  /\ isinstance_dict(draft_request_email(run[e].dresp))
  /\ Truthy(draft_request_email(run[e].dresp))

\* C16: a job whose extracted record is found incomplete and whose draft
\* succeeds ends as missing_fields_email_sent; the stored additional_info
\* holds the missing list of check_required_fields, the resolved contact
\* target and the result of the send; when only patient.date_of_birth is
\* empty the missing list is ["patient.date_of_birth"] and the contact is the
\* referring provider's email.
C16_EmailSentRecord ==
  \A e \in Ids :
    (/\ Answered(e)
     /\ isinstance_dict(llm_assistend_extraction(run[e].resp))
     /\ Validation[run[e].resp].exc = "none"
     /\ ~Validation[run[e].resp].complete
     /\ DraftSucceeded(e))
    => /\ run[e].fate = "written"
       /\ run[e].written = "missing_fields_email_sent"
       /\ store[e].status = "missing_fields_email_sent" =>
            LET info == store[e].additional_info
                sd   == llm_assistend_extraction(run[e].resp)
            IN  /\ info.missing_fields = Validation[run[e].resp].missing
                /\ info.contact_info = ContactTarget(sd).v
                /\ info.result_status = "sent"
                /\ info.recipient = info.contact_info
                /\ run[e].resp = "noDateOfBirth" =>
                     /\ info.missing_fields = <<"patient.date_of_birth">>
                     /\ info.contact_info = Str("a@clinic")

Hung(w) == pc[w] = "hung"

\* C17: with two or more workers, while one worker is blocked in a
\* language-model call and no other worker is, every job in the queue is
\* eventually dequeued and brought to a terminal status.
C17_HangLeavesOthersWorking ==
  \A w \in Workers, e \in Ids :
    (num_workers >= 2 /\ Hung(w) /\ run[e].fate = "queued")
      ~> \/ /\ run[e].deliveries > 0
            /\ run[e].fate = "written"
            /\ run[e].written \in Terminal
         \/ \E w2 \in Workers \ {w} : Hung(w2)

\* C19: with fair workers and language-model calls that return, every job
\* the intake handler enqueues is eventually dequeued and its status record
\* eventually holds a terminal status; once the uploads have stopped the
\* queue becomes empty.
C19_EveryJobReachesTerminalStatus ==
  /\ \A e \in Ids :
       (run[e].kind = "job" /\ run[e].fate = "queued")
         ~> \/ run[e].deliveries > 0 /\ store[e].status \in Terminal
            \/ \E w \in Workers : Hung(w)
  /\ (nextId > MaxJobs) ~> (queue = <<>> \/ \E w \in Workers : Hung(w))

\* a step that answers an upload with an error
Rejection ==
  /\ lastResp' # lastResp
  /\ lastResp'.doc = 0
  /\ lastResp'.code \in {400, 500}

\* C18: an upload rejected at the intake boundary (unsupported extension,
\* PDF, OCR failure) leaves the queue and the status store as they were: no
\* job is enqueued and no status record is written.
C18_RejectedUploadChangesNothing ==
  [][Rejection => queue' = queue /\ store' = store /\ nextId' = nextId]_vars

\* an upload was rejected for OCR failure while a job was in the queue
C18_Witness ==
  /\ lastResp.doc = 0
  /\ lastResp.code = 500
  /\ queue # <<>>

DiedOnJob(e) ==
  run[e].kind = "job" /\ run[e].fate = "raised" /\ run[e].writes = 0

InQueue(q, e) == \E i \in 1..Len(q) : q[i].id = e

\* C21: a job whose worker process died between the dequeue and the status
\* write is lost.  It is not in the queue and no worker holds it, then and
\* ever after; it is never dequeued or processed again; its record is
\* ocr_complete or absent and never another status, and once the record has
\* expired it stays absent.
C21_CrashedJobIsLost ==
  /\ [](\A e \in Ids :
          DiedOnJob(e) =>
            /\ ~InQueue(queue, e)
            /\ \A w \in Workers : cur[w] # e
            /\ run[e].deliveries = 1
            /\ store[e].status \in {"ocr_complete", ""})
  /\ [][\A e \in Ids :
          DiedOnJob(e) =>
            /\ [run'[e] EXCEPT !.sets = 0] = [run[e] EXCEPT !.sets = 0]
            /\ store[e] = NoRecord /\ intake # e => store'[e] = NoRecord]_vars

\* the only worker died on a job and was restarted; the record of the job
\* is still ocr_complete
C21_Witness ==
  \E e \in Ids :
    /\ DiedOnJob(e)
    /\ pc[1] = "poll"
    /\ store[e].status = "ocr_complete"

\* entry e has been pushed on the queue
Pushed(e) == run[e].kind # "none"

\* C22: the queue is first-in first-out.  The entries wait in the order of
\* their push, the oldest at the tail; an entry is dequeued only when every
\* entry pushed before it has been dequeued; and with a single worker the
\* status writes occur in upload order: no job is written after a job
\* uploaded later.
C22_FirstInFirstOut ==
  /\ [](\A i, j \in 1..Len(queue) : i < j => queue[i].id > queue[j].id)
  /\ [](\A e1, e2 \in Ids :
          e1 < e2 /\ Pushed(e1) /\ run[e2].deliveries > 0 =>
            run[e1].deliveries > 0)
  /\ [][num_workers = 1 =>
          \A e1, e2 \in Ids :
            e1 < e2 /\ run'[e1].writes > run[e1].writes =>
              run[e2].writes = 0 /\ run'[e2].writes = 0]_vars

\* a single worker has written the status of two jobs
C22_Witness ==
  /\ num_workers = 1
  /\ \E e1, e2 \in Ids :
       /\ e1 < e2
       /\ run[e1].writes = 1 /\ run[e2].writes = 1
       /\ run[e1].kind = "job" /\ run[e2].kind = "job"

\* C23: the worker writes the status of a dequeued job at most once, and
\* what it writes is a terminal status; the intake handler writes the record
\* once, as ocr_complete; every change of a record other than its expiry is
\* one of these two writes, so a record is written at most twice.
C23_AtMostTwoWrites ==
  /\ [](\A e \in Ids :
          /\ run[e].writes <= 1
          /\ run[e].writes <= run[e].deliveries
          /\ run[e].writes = 1 => run[e].written \in Terminal
          /\ run[e].sets <= 1
          /\ run[e].sets + run[e].writes <= 2)
  /\ [][\A d \in Ids :
          store'[d] # store[d] /\ store'[d] # NoRecord =>
            \/ /\ run'[d].writes = run[d].writes + 1
               /\ run'[d].sets = run[d].sets
               /\ store'[d].status \in Terminal
            \/ /\ run'[d].sets = run[d].sets + 1
               /\ run'[d].writes = run[d].writes
               /\ store'[d] = JobData]_vars

\* a record written twice: by the intake handler and by the worker
C23_Witness ==
  \E d \in Ids :
    /\ run[d].sets = 1
    /\ run[d].writes = 1
    /\ store[d].status \in Terminal

\* a step in which entry e is dequeued
DequeueOf(e) == run[e].deliveries = 0 /\ run'[e].deliveries = 1

Alive == {w \in Workers : pc[w] \notin {"off", "exited"}}

\* C25: an AgentManager started once with num_workers = N has at most N
\* worker processes alive, all in the slots 1..N; a slot starts a process only
\* when its previous process has exited and been waited for; and a slot that
\* has seen running = False at its loop condition starts no process again.
C25_AtMostNWorkers ==
  /\ [](/\ Cardinality(Alive) <= num_workers
        /\ \A s \in Workers : s > num_workers => pc[s] = "off")
  /\ [][\A s \in Workers :
          /\ spc[s] = "popen" /\ spc'[s] = "wait" => pc[s] = "off"
          /\ pc[s] # "start" /\ pc'[s] = "start" =>
               pc[s] = "off" /\ spc[s] = "popen"
          /\ spc[s] = "stopped" =>
               /\ spc'[s] = "stopped"
               /\ pc'[s] # "start"]_vars

\* after stop_agents one slot has stopped for good while the process of
\* another slot is still running
C25_Witness ==
  /\ ~running
  /\ \E s1, s2 \in Workers :
       /\ spc[s1] = "stopped" /\ pc[s1] = "off"
       /\ spc[s2] = "wait" /\ pc[s2] = "poll"

=============================================================================
